---- MODULE Spec2Model ----
(***************************************************************************)
(* A state-machine model of medea/BeamEmulator.py: the BeamEmulator       *)
(* object, its lazily fitted coefficient interpolater, its lazily built   *)
(* coefficient-to-pixel projector and the query operation __call__.       *)
(*                                                                         *)
(* Arrays are sequences (1-based here, 0-based in the source): a matrix   *)
(* is a sequence of rows, the coefficient tensor a sequence over the      *)
(* hyper-parameter axis of [frequency][coefficient] matrices.  Numbers    *)
(* are integers: the training grid is 0, 2, 4, ... and the stored         *)
(* coefficients are even, so that an order-1 interpolant takes integer    *)
(* values at every integer query point.                                   *)
(*                                                                         *)
(* Python exceptions are recorded by class name.  The two malformed       *)
(* statements of the source (the decorator lines 218 and 227, and the     *)
(* try of lines 151-154 that has no except clause) have no run-time       *)
(* meaning; the model reads the try as guarding the optional score only   *)
(* and leaves the inverse accessor out.  scikit-learn is taken to be      *)
(* installed, and interpolation_order is 1 throughout.                    *)
(***************************************************************************)
EXTENDS Integers, Sequences, FiniteSets, TLC

\* ------------------------------------------------------------------ bounds
MaxF == 2          \* frequencies: 1..MaxF
MaxL == 2          \* coefficients per frequency, and pixels of the basis: 1..MaxL
MaxH == 3          \* hyper-parameter grid nodes: 2..MaxH
MaxPoint == 2      \* query points: 0..MaxPoint (grid nodes are the even ones)
MaxQueries == 2    \* queries issued on one emulator
NumCallers == 2    \* concurrent callers of the first query

Nsides == {1}

VARIABLES
    args,                              \* the arguments given to __init__
    phase,                             \* "new" before __init__, "ready" after
    self,                              \* the attributes __init__ assigns
    _hyper_parameter_interpolater,     \* the cached fitted model, or Unset
    _cryo_basis_kl_to_beam,            \* the cached projector, or Unset
    diagnostics,                       \* names of the diagnostic attributes set
    result,                            \* what the last operation returned or raised
    last_op,                           \* the last operation and its argument
    fit_count,                         \* fits completed so far
    n_queries,                         \* queries issued so far
    pc, local                          \* concurrent callers: position and locals

vars == <<args, phase, self, _hyper_parameter_interpolater, _cryo_basis_kl_to_beam,
          diagnostics, result, last_op, fit_count, n_queries, pc, local>>

\* ------------------------------------------------------------- data values
\* coefficient_order=None, the default: no truncation (orders given are >= 1)
None == -1
NoError == ""
NoKey == "<missing>"

Unset == [kind |-> "unset", id |-> 0, x |-> <<>>, y |-> <<>>, fitted |-> FALSE]
NoProjector == <<>>

Returned(v) == [kind |-> "array", exc |-> "", at |-> "", value |-> v]
Raised(e, where) == [kind |-> "error", exc |-> e, at |-> where, value |-> <<>>]
NoResult == [kind |-> "none", exc |-> "", at |-> "", value |-> <<>>]

\* hp.nside2npix
nside2npix(nside) == 12 * nside * nside

\* The stored training data: one tensor and one basis per shape.
Coef(i, f, l) == 2 * ((i * i + 2 * f + 3 * l) % 5)
BasisEntry(l, p) == ((l + 2 * p) % 3) + 1
Tensor(H, F, L) == [i \in 1..H |-> [f \in 1..F |-> [l \in 1..L |-> Coef(i, f, l)]]]
BasisMatrix(L, P) == [l \in 1..L |-> [p \in 1..P |-> BasisEntry(l, p)]]
Grid(H) == [i \in 1..H |-> 2 * (i - 1)]
\* zero-based above-horizon pixel numbers, increasing, all below 12
Pos(j) == 2 * (j - 1) + (j \div 3)
Mask(n, one_based) == [j \in 1..n |-> Pos(j) + (IF one_based THEN 1 ELSE 0)]

KnownKernels == {"RBF", "Matern_2_5", "Matern_1_5", "RQ"}
KnownRegressors == {"MultiOutput", "RegressorChain"}

\* ------------------------------------------------------------ numpy helpers
RECURSIVE Concat(_)
Concat(ss) == IF ss = <<>> THEN <<>> ELSE Head(ss) \o Concat(Tail(ss))

\* ndarray.reshape(-1) of a matrix and of a 3-axis tensor (row-major)
Flat2(m) == Concat(m)
Flat3(t) == Concat([i \in 1..Len(t) |-> Flat2(t[i])])
\* np.reshape(flat, (rows, -1)); the caller checks divisibility
Reshape2(flat, rows) ==
    LET cols == Len(flat) \div rows
    IN [r \in 1..rows |-> [c \in 1..cols |-> flat[(r - 1) * cols + c]]]

Cols(m) == IF Len(m) = 0 THEN 0 ELSE Len(m[1])
Transpose(m) == [c \in 1..Cols(m) |-> [r \in 1..Len(m) |-> m[r][c]]]
\* m[:, :k]; k = None keeps every column
TruncateCols(m, k) ==
    LET n == IF k = None \/ k > Cols(m) THEN Cols(m) ELSE k
    IN [r \in 1..Len(m) |-> SubSeq(m[r], 1, n)]

RECURSIVE Dot(_, _)
Dot(a, b) == IF a = <<>> THEN 0 ELSE Head(a) * Head(b) + Dot(Tail(a), Tail(b))
\* np.matmul of a matrix and a vector, of a matrix and a matrix
MatVec(m, v) == [r \in 1..Len(m) |-> Dot(m[r], v)]
MatMat(a, b) == [r \in 1..Len(a) |-> [c \in 1..Cols(b) |-> Dot(a[r], Transpose(b)[c])]]

\* ------------------------------------------------------------ interpolation
\* the grid interval used for h: the last one starting at or before h
Segment(x, h) ==
    LET S == {i \in 1..(Len(x) - 1) : x[i] <= h}
    IN IF S = {} THEN 1 ELSE CHOOSE i \in S : \A j \in S : j <= i

\* an order-1 interpolating spline over the leading axis, evaluated at h
Interp(x, ys, h) ==
    LET i == Segment(x, h)
    IN ys[i] + ((ys[i + 1] - ys[i]) * (h - x[i])) \div (x[i + 1] - x[i])
\* make_interp_spline(x, y, k=1)(h) for y of shape [H, F, L]
SplineCall(model, h) ==
    LET y == model.y
    IN [f \in 1..Len(y[1]) |-> [l \in 1..Len(y[1][f]) |->
            Interp(model.x, [i \in 1..Len(y) |-> y[i][f][l]], h)]]
\* regr.predict(X) for one sample X = [[h]]: shape [1, features]
GprPredict(model, h) ==
    LET y == model.y
    IN << [c \in 1..Cols(y) |-> Interp(model.x, [i \in 1..Len(y) |-> y[i][c]], h)] >>

\* ------------------------------------------------- BeamEmulator.__init__
\* __init__ without the shift of lines 96-97
InitAttributesUnshifted(a) ==
    [frequencies |-> a.frequencies,
     nside |-> a.nside,
     cryobasis |-> a.cryobasis,
     cryo_coefficients |-> a.cryo_coefficients,
     hyper_parameter_array |-> a.hyper_parameter_array,
     unmasked_indices |-> a.unmasked_indices,
     interpolation_order |-> a.interpolation_order,
     use_gpr |-> a.use_gpr,
     coefficient_order |-> a.coefficient_order,
     gpr_kwargs |-> a.gpr_kwargs,
     return_beam_above_horizon |-> a.return_beam_above_horizon,
     unmasked_indices_in_julia_ordering |-> a.unmasked_indices_in_julia_ordering]

\* lines 83-97: every argument is stored as given; the pixel indices are
\* shifted down by one when they are in Julia (one-based) ordering
InitAttributes(a) ==
    [frequencies |-> a.frequencies,
     nside |-> a.nside,
     cryobasis |-> a.cryobasis,
     cryo_coefficients |-> a.cryo_coefficients,
     hyper_parameter_array |-> a.hyper_parameter_array,
     unmasked_indices |->
        IF a.unmasked_indices_in_julia_ordering
        THEN [j \in 1..Len(a.unmasked_indices) |-> a.unmasked_indices[j] - 1]
        ELSE a.unmasked_indices,
     interpolation_order |-> a.interpolation_order,
     use_gpr |-> a.use_gpr,
     coefficient_order |-> a.coefficient_order,
     gpr_kwargs |-> a.gpr_kwargs,
     return_beam_above_horizon |-> a.return_beam_above_horizon,
     unmasked_indices_in_julia_ordering |-> a.unmasked_indices_in_julia_ordering]

\* the three shape mismatches between the arguments
MaskMismatch(a) == Len(a.unmasked_indices) # Cols(a.cryobasis)
GridMismatch(a) == Len(a.cryo_coefficients) # Len(a.hyper_parameter_array)
FrequencyMismatch(a) == Len(a.cryo_coefficients[1]) # Len(a.frequencies)
Mismatch(a) == MaskMismatch(a) \/ GridMismatch(a) \/ FrequencyMismatch(a)

\* an __init__ that validated the shapes
InitErrorValidating(a) == IF Mismatch(a) THEN "DimensionMismatch" ELSE NoError

\* the exception __init__ raises for these arguments, or NoError: it has no
\* raise statement and no shape check
InitError(a) == NoError

\* ------------------------------- BeamEmulator.hyper_parameter_interpolater
\* lines 102-147: the fit the getter runs when no model is cached.  The
\* outcome is the exception it raises, or the model it builds together with
\* the diagnostic attributes it sets.
\* a regressor or spline object that was built but never fitted
UnfittedModel(kind, id, x, y) ==
    [kind |-> kind, id |-> id, x |-> x, y |-> y, fitted |-> FALSE]
\* lines 120-126 and 145-147: the object the fitting call hands back
FittedModel(kind, id, x, y) ==
    [kind |-> kind, id |-> id, x |-> x, y |-> y, fitted |-> TRUE]

FitFailed(e, where) == [error |-> Raised(e, where), model |-> Unset, diag |-> {}]
FitDone(m, d) == [error |-> NoResult, model |-> m, diag |-> d]

\* a fit in which an unknown kernel or regressor name fell back to a default
FitModelDefaulting(s, id) ==
    LET coeff == s.cryo_coefficients
        x == s.hyper_parameter_array
        flat == Flat3(coeff)
    IN  IF Len(flat) % Len(x) # 0
        THEN FitFailed("ValueError", "reshape")
        ELSE IF s.use_gpr
        THEN FitDone(FittedModel("gpr", id, x, Reshape2(flat, Len(x))),
                     {"estimator_log_marginal_likelihoods",
                      "estimator_hyper_parameters",
                      "gpr_score_of_training_set"})
        ELSE IF Len(coeff) # Len(x)
        THEN FitFailed("ValueError", "make_interp_spline")
        ELSE FitDone(FittedModel("spline", id, x, coeff),
                     {"spline_score_of_training_set"})

FitModel(s, id) ==
    LET coeff == s.cryo_coefficients
        x == s.hyper_parameter_array
        flat == Flat3(coeff)
        kw == s.gpr_kwargs
    IN  IF Len(flat) % Len(x) # 0
        THEN FitFailed("ValueError", "reshape")
        ELSE IF s.use_gpr
        THEN IF kw.kernel = NoKey THEN FitFailed("KeyError", "kernel")
             ELSE IF kw.kernel \notin KnownKernels
             THEN FitFailed("UnboundLocalError", "kernel")
             ELSE IF kw.regressor \notin KnownRegressors
             THEN FitFailed("UnboundLocalError", "regr")
             ELSE FitDone(FittedModel("gpr", id, x, Reshape2(flat, Len(x))),
                          {"estimator_log_marginal_likelihoods",
                           "estimator_hyper_parameters",
                           "gpr_score_of_training_set"})
        ELSE IF Len(coeff) # Len(x)
        THEN FitFailed("ValueError", "make_interp_spline")
        ELSE FitDone(FittedModel("spline", id, x, coeff),
                     {"spline_score_of_training_set"})

\* a getter that ignored the cached model and fitted at every read
InterpolaterGetRefitting(s, cache, id) ==
    LET fit == FitModel(s, id)
    IN [error |-> fit.error, model |-> fit.model, diag |-> fit.diag,
        fitted |-> fit.error = NoResult]

\* lines 99-155: the property getter.  A cached model is returned as it is;
\* otherwise the fit runs and its model is cached.
InterpolaterGet(s, cache, id) ==
    IF cache # Unset
    THEN [error |-> NoResult, model |-> cache, diag |-> {}, fitted |-> FALSE]
    ELSE LET fit == FitModel(s, id)
         IN [error |-> fit.error, model |-> fit.model, diag |-> fit.diag,
             fitted |-> fit.error = NoResult]

\* ---------------------------------------- BeamEmulator.cryo_basis_kl_to_beam
\* lines 210-211: the projector derived from a basis, truncated to the
\* first coefficient_order columns
Projector(basis, order) == TruncateCols(Transpose(basis), order)

\* lines 207-212: the property getter.  It reads the attribute cryo_basis;
\* __init__ stores the basis under the name cryobasis.
ProjectorGet(s, proj) ==
    IF proj # NoProjector THEN [error |-> NoResult, proj |-> proj]
    ELSE IF "cryo_basis" \notin DOMAIN s
    THEN [error |-> Raised("AttributeError", "cryo_basis"), proj |-> NoProjector]
    ELSE [error |-> NoResult, proj |-> Projector(s.cryo_basis, s.coefficient_order)]

\* ------------------------------------------------ BeamEmulator.__call__
\* lines 252-258: the interpolated coefficients, one row per frequency
PredictCoefficients(s, model, h) ==
    IF s.use_gpr
    THEN LET flat == GprPredict(model, h)[1]
             F == Len(s.frequencies)
         IN IF Len(flat) % F # 0
            THEN [error |-> Raised("ValueError", "reshape"), coeff |-> <<>>]
            ELSE [error |-> NoResult, coeff |-> Reshape2(flat, F)]
    ELSE [error |-> NoResult, coeff |-> SplineCall(model, h)]

\* a scatter that took the indices as one-based
ScatterOneBased(mask, funks, npix) ==
    [q \in 1..npix |->
        LET hits == {j \in 1..Len(mask) : mask[j] = q}
        IN IF hits = {} THEN 0
           ELSE LET j == CHOOSE k \in hits : \A m \in hits : m <= k
                IN IF Len(funks) = 1 THEN funks[1] ELSE funks[j]]

\* line 269: beam_map[unmasked_indices] = funks, on a zero map of npix
\* pixels.  Pixel p of the source is position p + 1 here; a negative index
\* counts from the end; a one-element funks is broadcast.
Scatter(mask, funks, npix) ==
    [q \in 1..npix |->
        LET hits == {j \in 1..Len(mask) :
                        (IF mask[j] < 0 THEN mask[j] + npix ELSE mask[j]) = q - 1}
        IN IF hits = {} THEN 0
           ELSE LET j == CHOOSE k \in hits : \A m \in hits : m <= k
                IN IF Len(funks) = 1 THEN funks[1] ELSE funks[j]]

\* lines 259-262: the horizon-restricted return value
AboveHorizon(proj, coeff) ==
    IF Cols(proj) # Cols(coeff) THEN Raised("ValueError", "matmul")
    ELSE Returned(MatMat(proj, Transpose(coeff)))

\* lines 266-270: one pass of the loop over the frequencies
BeamMapRow(s, proj, coeff, ifreq) ==
    LET npix == nside2npix(s.nside)
        mask == s.unmasked_indices
    IN  IF ifreq > Len(coeff) THEN Raised("IndexError", "interp_coeff")
        ELSE IF Cols(proj) # Len(coeff[ifreq]) THEN Raised("ValueError", "matmul")
        ELSE LET funks == MatVec(proj, coeff[ifreq])
             IN IF Len(funks) # Len(mask) /\ Len(funks) # 1
                THEN Raised("ValueError", "beam_map")
                ELSE IF \E j \in 1..Len(mask) : mask[j] >= npix \/ mask[j] < -npix
                THEN Raised("IndexError", "beam_map")
                ELSE Returned(Scatter(mask, funks, npix))

\* lines 263-271: the full-sky return value
FullSky(s, proj, coeff) ==
    LET F == Len(s.frequencies)
        rows == [ifreq \in 1..F |-> BeamMapRow(s, proj, coeff, ifreq)]
        bad == {ifreq \in 1..F : rows[ifreq].kind = "error"}
    IN  IF bad # {} THEN rows[CHOOSE i \in bad : \A j \in bad : i <= j]
        ELSE Returned([ifreq \in 1..F |-> rows[ifreq].value])

\* lines 252-271 once the model is in hand: predict, project, assemble
Assemble(s, model, proj, h) ==
    LET pred == PredictCoefficients(s, model, h)
    IN  IF pred.error # NoResult THEN [result |-> pred.error, proj |-> proj]
        ELSE LET pg == ProjectorGet(s, proj)
             IN IF pg.error # NoResult THEN [result |-> pg.error, proj |-> proj]
                ELSE [result |-> IF s.return_beam_above_horizon
                                 THEN AboveHorizon(pg.proj, pred.coeff)
                                 ELSE FullSky(s, pg.proj, pred.coeff),
                      proj |-> pg.proj]

\* lines 251-271: the whole call.  The outcome is the value returned or the
\* exception raised, and the caches as the call leaves them.
CallOutcome(s, cache, proj, h, id) ==
    LET got == InterpolaterGet(s, cache, id)
    IN  IF got.error # NoResult
        THEN [result |-> got.error, model |-> got.model, proj |-> proj,
              diag |-> got.diag, fitted |-> got.fitted]
        ELSE LET a == Assemble(s, got.model, proj, h)
             IN [result |-> a.result, model |-> got.model, proj |-> a.proj,
                 diag |-> got.diag, fitted |-> got.fitted]

\* ------------------------------------------ BeamEmulator.coefficient_predicter
\* lines 157-161: reads the cached attribute itself, not the property
CoefficientPredicterOutcome(s, cache, h) ==
    IF cache = Unset THEN Raised("AttributeError", "_hyper_parameter_interpolater")
    ELSE IF s.use_gpr THEN Returned(GprPredict(cache, h))
    ELSE Returned(SplineCall(cache, h))

\* a predicter that read the model through the fitting property
CoefficientPredicterViaProperty(s, cache, h, id) ==
    LET got == InterpolaterGet(s, cache, id)
    IN [result |-> IF got.error # NoResult THEN got.error
                   ELSE CoefficientPredicterOutcome(s, got.model, h),
        model |-> got.model, diag |-> got.diag, fitted |-> got.fitted]

\* lines 157-161 with the cache as the call leaves it
CoefficientPredicterCall(s, cache, h, id) ==
    [result |-> CoefficientPredicterOutcome(s, cache, h), model |-> cache,
     diag |-> {}, fitted |-> FALSE]

\* ------------------------------------------------------- the inputs drawn
Strategies ==
    LET kw(k, r) == [kernel |-> k, normalize_y |-> TRUE, regressor |-> r]
    IN {[use_gpr |-> FALSE, gpr_kwargs |-> kw(NoKey, NoKey)],
        [use_gpr |-> TRUE, gpr_kwargs |-> kw("RBF", "MultiOutput")],
        [use_gpr |-> TRUE, gpr_kwargs |-> kw("Linear", "MultiOutput")],
        [use_gpr |-> TRUE, gpr_kwargs |-> kw("RQ", "Stacked")]}

\* "none": the shapes agree.  Otherwise one axis is one longer than the
\* axis it has to match (and no truncation order is given).
Defects == {"none", "mask_len", "h_axis", "f_axis"}
Orders == {None} \cup 1..MaxL
Points == 0..MaxPoint

\* The basis is square, L coefficients by P = L pixels, as the inversion of
\* line 222 needs it to be.
Arguments(F, L, H, defect, st, K, horizon, julia, nside) ==
  LET P == L IN
    [frequencies |-> [f \in 1..F |-> 49 + f],
     nside |-> nside,
     cryobasis |-> BasisMatrix(L, P),
     cryo_coefficients |->
        Tensor(IF defect = "h_axis" THEN H + 1 ELSE H,
               IF defect = "f_axis" THEN F + 1 ELSE F, L),
     hyper_parameter_array |-> Grid(H),
     unmasked_indices |-> Mask(IF defect = "mask_len" THEN P + 1 ELSE P, julia),
     interpolation_order |-> 1,
     use_gpr |-> st.use_gpr,
     coefficient_order |-> K,
     gpr_kwargs |-> st.gpr_kwargs,
     return_beam_above_horizon |-> horizon,
     unmasked_indices_in_julia_ordering |-> julia,
     defect |-> defect]

ArgumentSets(defects) ==
    LET all == {Arguments(F, L, H, d, st, K, hz, ju, ns) :
                    F \in 1..MaxF, L \in 1..MaxL, H \in 2..MaxH, d \in defects,
                    st \in Strategies, K \in Orders,
                    hz \in BOOLEAN, ju \in BOOLEAN, ns \in Nsides}
    IN {a \in all : a.defect = "none" \/ a.coefficient_order = None}

Callers == 1..NumCallers
NoLocal == [h |-> 0, model |-> Unset, result |-> NoResult]

InitWith(defects) ==
    /\ args \in ArgumentSets(defects)
    /\ phase = "new"
    /\ self = <<>>
    /\ _hyper_parameter_interpolater = Unset
    /\ _cryo_basis_kl_to_beam = NoProjector
    /\ diagnostics = {}
    /\ result = NoResult
    /\ last_op = [op |-> "none", h |-> 0]
    /\ fit_count = 0
    /\ n_queries = 0
    /\ pc = [c \in Callers |-> "idle"]
    /\ local = [c \in Callers |-> NoLocal]

Init == InitWith(Defects)

\* --------------------------------------------------------------- actions
\* BeamEmulator(...): lines 27-97
Construct ==
    /\ phase = "new"
    /\ IF InitError(args) = NoError
       THEN /\ phase' = "ready"
            /\ self' = InitAttributes(args)
            /\ result' = NoResult
       ELSE /\ phase' = "failed"
            /\ self' = self
            /\ result' = Raised(InitError(args), "__init__")
    /\ last_op' = [op |-> "construct", h |-> 0]
    /\ UNCHANGED <<args, _hyper_parameter_interpolater, _cryo_basis_kl_to_beam,
                   diagnostics, fit_count, n_queries, pc, local>>

\* emulator([h]): lines 251-271, with the getters it calls
Query(h) ==
    /\ phase = "ready"
    /\ n_queries < MaxQueries
    /\ LET out == CallOutcome(self, _hyper_parameter_interpolater,
                              _cryo_basis_kl_to_beam, h, fit_count + 1)
       IN /\ result' = out.result
          /\ _hyper_parameter_interpolater' = out.model
          /\ _cryo_basis_kl_to_beam' = out.proj
          /\ diagnostics' = diagnostics \cup out.diag
          /\ fit_count' = IF out.fitted THEN fit_count + 1 ELSE fit_count
    /\ n_queries' = n_queries + 1
    /\ last_op' = [op |-> "query", h |-> h]
    /\ UNCHANGED <<args, phase, self, pc, local>>

\* emulator.coefficient_predicter([h]): lines 157-161
CoefficientPredicter(h) ==
    /\ phase = "ready"
    /\ LET out == CoefficientPredicterCall(self, _hyper_parameter_interpolater, h,
                                           fit_count + 1)
       IN /\ result' = out.result
          /\ _hyper_parameter_interpolater' = out.model
          /\ diagnostics' = diagnostics \cup out.diag
          /\ fit_count' = IF out.fitted THEN fit_count + 1 ELSE fit_count
    /\ last_op' = [op |-> "predict", h |-> h]
    /\ UNCHANGED <<args, phase, self, _cryo_basis_kl_to_beam, n_queries, pc, local>>

\* emulator.cryo_basis_kl_to_beam = value: lines 214-216.  The value given
\* is the projector of the basis the constructor was given, at the
\* emulator's coefficient order; assigning it a second time would assign
\* the same value, so the assignment is taken once.
SetCryoBasisKlToBeam ==
    /\ phase = "ready"
    /\ _cryo_basis_kl_to_beam = NoProjector
    /\ _cryo_basis_kl_to_beam' = Projector(self.cryobasis, self.coefficient_order)
    /\ result' = NoResult
    /\ last_op' = [op |-> "set", h |-> 0]
    /\ UNCHANGED <<args, phase, self, _hyper_parameter_interpolater, diagnostics,
                   fit_count, n_queries, pc, local>>

\* ---------------------------------- the same call, one caller per thread
\* Each caller issues one query, at the point 1 between the first two grid
\* nodes.  A thread may be preempted between any two
\* statements: between the hasattr test of line 101, the fitting call, the
\* assignment of lines 141/145, the read of line 155 and the rest of
\* __call__.
SetLocal(c, field, v) == [local EXCEPT ![c][field] = v]

\* emulator([h]) is entered
CallBegin(c, h) ==
    /\ phase = "ready"
    /\ pc[c] = "idle"
    /\ pc' = [pc EXCEPT ![c] = "getter"]
    /\ local' = SetLocal(c, "h", h)
    /\ n_queries' = n_queries + 1
    /\ UNCHANGED <<args, phase, self, _hyper_parameter_interpolater,
                   _cryo_basis_kl_to_beam, diagnostics, result, last_op, fit_count>>

\* line 101: if not hasattr(self, '_hyper_parameter_interpolater')
GetterCheck(c) ==
    /\ pc[c] = "getter"
    /\ pc' = [pc EXCEPT ![c] = IF _hyper_parameter_interpolater = Unset
                                THEN "fit" ELSE "return"]
    /\ UNCHANGED <<args, phase, self, _hyper_parameter_interpolater,
                   _cryo_basis_kl_to_beam, diagnostics, result, last_op, fit_count,
                   n_queries, local>>

\* lines 102-139, or the right-hand side of lines 145-147: the fit, into a
\* local; an exception ends the call
GetterFit(c) ==
    /\ pc[c] = "fit"
    /\ LET fit == FitModel(self, fit_count + 1)
       IN IF fit.error # NoResult
          THEN /\ pc' = [pc EXCEPT ![c] = "done"]
               /\ local' = SetLocal(c, "result", fit.error)
               /\ UNCHANGED <<fit_count, diagnostics>>
          ELSE /\ pc' = [pc EXCEPT ![c] = "publish"]
               /\ local' = SetLocal(c, "model", fit.model)
               /\ fit_count' = fit_count + 1
               /\ diagnostics' = diagnostics \cup (IF self.use_gpr THEN fit.diag ELSE {})
    /\ UNCHANGED <<args, phase, self, _hyper_parameter_interpolater,
                   _cryo_basis_kl_to_beam, result, last_op, n_queries>>

\* line 141, or the assignment of line 145 with the score of lines 148-154
GetterPublish(c) ==
    /\ pc[c] = "publish"
    /\ _hyper_parameter_interpolater' = local[c].model
    /\ diagnostics' = diagnostics \cup
            (IF self.use_gpr THEN {} ELSE {"spline_score_of_training_set"})
    /\ pc' = [pc EXCEPT ![c] = "return"]
    /\ UNCHANGED <<args, phase, self, _cryo_basis_kl_to_beam, result, last_op,
                   fit_count, n_queries, local>>

\* line 155: return self._hyper_parameter_interpolater
GetterReturn(c) ==
    /\ pc[c] = "return"
    /\ local' = SetLocal(c, "model", _hyper_parameter_interpolater)
    /\ pc' = [pc EXCEPT ![c] = "project"]
    /\ UNCHANGED <<args, phase, self, _hyper_parameter_interpolater,
                   _cryo_basis_kl_to_beam, diagnostics, result, last_op, fit_count,
                   n_queries>>

\* the rest of lines 252-271, on the model the getter returned
Project(c) ==
    /\ pc[c] = "project"
    /\ LET a == Assemble(self, local[c].model, _cryo_basis_kl_to_beam, local[c].h)
       IN /\ local' = SetLocal(c, "result", a.result)
          /\ _cryo_basis_kl_to_beam' = a.proj
    /\ pc' = [pc EXCEPT ![c] = "done"]
    /\ UNCHANGED <<args, phase, self, _hyper_parameter_interpolater, diagnostics,
                   result, last_op, fit_count, n_queries>>

\* the arguments of the concurrent runs: consistent shapes of the largest
\* size, no truncation
InitConc ==
    /\ InitWith({"none"})
    /\ args.coefficient_order = None
    /\ Len(args.cryobasis) = MaxL
    /\ Len(args.frequencies) = MaxF
    /\ Len(args.hyper_parameter_array) = MaxH
    /\ args.unmasked_indices_in_julia_ordering

NextConc ==
    \/ Construct
    \/ SetCryoBasisKlToBeam
    \/ \E c \in Callers : CallBegin(c, 1)
    \/ \E c \in Callers : GetterCheck(c)
    \/ \E c \in Callers : GetterFit(c)
    \/ \E c \in Callers : GetterPublish(c)
    \/ \E c \in Callers : GetterReturn(c)
    \/ \E c \in Callers : Project(c)

SpecConc == InitConc /\ [][NextConc]_vars

Next ==
    \/ Construct
    \/ \E h \in Points : Query(h)
    \/ \E h \in Points : CoefficientPredicter(h)
    \/ SetCryoBasisKlToBeam

Spec == Init /\ [][Next]_vars

\* ------------------------------------------------------ claims: vocabulary
QueryDone == last_op.op = "query"
PredictDone == last_op.op = "predict"
IsArray == result.kind = "array"
NoDefect == args.defect = "none"
FitSucceeds == FitModel(self, 1).error = NoResult
UnknownName ==
    \/ self.gpr_kwargs.kernel \notin KnownKernels
    \/ self.gpr_kwargs.regressor \notin KnownRegressors
\* the pixel numbers the emulator holds
MaskPixels == {self.unmasked_indices[j] : j \in 1..Len(self.unmasked_indices)}
\* the coefficients the cached model predicts at the point last queried
Predicted == PredictCoefficients(self, _hyper_parameter_interpolater, last_op.h).coeff
\* the grid node the point last queried is, or 0
NodeOf(h) ==
    LET x == self.hyper_parameter_array
        S == {i \in 1..Len(x) : x[i] = h}
    IN IF S = {} THEN 0 ELSE CHOOSE i \in S : TRUE

\* ------------------------------------------------------------------- C1
\* C1: over any sequence of queries the model is fitted at most once; a
\* query whose configuration can be fitted leaves exactly one fit done and
\* its model cached; and once a model is cached no step changes it or fits
\* again.
C1_FittedOnce ==
    [][ /\ fit_count' <= 1
        /\ (_hyper_parameter_interpolater # Unset =>
               /\ _hyper_parameter_interpolater' = _hyper_parameter_interpolater
               /\ fit_count' = fit_count)
        /\ (n_queries' # n_queries /\ FitSucceeds =>
               /\ fit_count' = 1
               /\ _hyper_parameter_interpolater' = FitModel(self, 1).model) ]_vars

C1_Witness ==
    /\ n_queries = MaxQueries /\ fit_count = 1 /\ QueryDone /\ IsArray
    /\ self.use_gpr

\* ------------------------------------------------------------------- C2
\* C2: a full-sky query that returns, returns one row per frequency of
\* 12*nside^2 values; every pixel outside the zero-based mask is 0 and the
\* j-th projected value of the frequency is at pixel unmasked_indices[j].
C2_FullSkyMasked ==
    (QueryDone /\ IsArray /\ ~self.return_beam_above_horizon) =>
        LET npix == 12 * self.nside * self.nside
            mask == self.unmasked_indices
            out == result.value
        IN /\ Len(out) = Len(self.frequencies)
           /\ \A f \in 1..Len(out) :
                LET funks == MatVec(_cryo_basis_kl_to_beam, Predicted[f])
                IN /\ Len(out[f]) = npix
                   /\ \A q \in 0..(npix - 1) : q \notin MaskPixels => out[f][q + 1] = 0
                   /\ \A j \in 1..Len(mask) :
                        j <= Len(funks) => out[f][mask[j] + 1] = funks[j]

C2_Witness ==
    /\ QueryDone /\ IsArray /\ ~self.return_beam_above_horizon
    /\ Len(self.frequencies) = 2 /\ Len(self.unmasked_indices) = 2
    /\ self.unmasked_indices_in_julia_ordering
    /\ \A f \in 1..2 : \A j \in 1..2 : result.value[f][self.unmasked_indices[j] + 1] # 0

\* ------------------------------------------------------------------- C3
\* C3: a horizon-restricted query that returns, on arguments of consistent
\* shapes, returns one row per frequency, each of len(unmasked_indices)
\* values.
C3_HorizonShape ==
    (QueryDone /\ IsArray /\ NoDefect /\ self.return_beam_above_horizon) =>
        /\ Len(result.value) = Len(self.frequencies)
        /\ \A f \in 1..Len(result.value) :
                Len(result.value[f]) = Len(self.unmasked_indices)

\* ------------------------------------------------------------------- C4
\* C4: a spline query at grid node i, with consistent shapes and no
\* truncation, returns for every frequency f the basis applied to
\* cryo_coefficients[i, f, :], placed as the output mode says.
C4_NodeExact ==
    (QueryDone /\ NoDefect /\ ~self.use_gpr /\ self.coefficient_order = None
        /\ NodeOf(last_op.h) # 0) =>
        LET i == NodeOf(last_op.h)
            beam(f) == MatVec(Transpose(self.cryobasis), self.cryo_coefficients[i][f])
            F == Len(self.frequencies)
        IN result = Returned(
               IF self.return_beam_above_horizon
               THEN [f \in 1..F |-> beam(f)]
               ELSE [f \in 1..F |->
                        Scatter(self.unmasked_indices, beam(f), nside2npix(self.nside))])

\* ------------------------------------------------------------------- C5
\* C5: from construction on, and after any query, the held pixel indices
\* are the given ones less 1 when the one-based flag is set, and the given
\* ones when it is not.
C5_IndexOrigin ==
    phase = "ready" =>
        /\ Len(self.unmasked_indices) = Len(args.unmasked_indices)
        /\ \A j \in 1..Len(args.unmasked_indices) :
              self.unmasked_indices[j] =
                 args.unmasked_indices[j]
                    - (IF args.unmasked_indices_in_julia_ordering THEN 1 ELSE 0)

C5_Witness ==
    /\ n_queries = MaxQueries /\ QueryDone /\ IsArray
    /\ args.unmasked_indices_in_julia_ordering
    /\ Len(args.unmasked_indices) = 2
    /\ self.unmasked_indices = <<args.unmasked_indices[1] - 1, args.unmasked_indices[2] - 1>>

\* ------------------------------------------------------------------- C6
\* C6: with coefficient_order K < L, consistent shapes, a model that fits
\* and a projector in place, a full-sky query succeeds and projects the
\* first K coefficients of every frequency.
C6_TruncatedQuery ==
    (QueryDone /\ NoDefect /\ FitSucceeds /\ _cryo_basis_kl_to_beam # NoProjector
        /\ ~self.return_beam_above_horizon
        /\ self.coefficient_order # None
        /\ self.coefficient_order < Len(self.cryobasis)) =>
        /\ IsArray
        /\ result.value =
              [f \in 1..Len(self.frequencies) |->
                  Scatter(self.unmasked_indices,
                          MatVec(Projector(self.cryobasis, self.coefficient_order),
                                 SubSeq(Predicted[f], 1, self.coefficient_order)),
                          nside2npix(self.nside))]

\* ------------------------------------------------------------------- C7
\* C7 as stated: with a mismatch among the arguments there is no
\* constructed emulator.
C7_ConstructionValidates == Mismatch(args) => phase # "ready"

\* C7 as amended: construction never fails; whatever the shapes, it yields
\* an emulator that holds the basis, the coefficients, the grid and the
\* frequencies as given.
C7_ConstructionNeverFails ==
    /\ phase # "failed"
    /\ (last_op.op # "none" => phase = "ready")
    /\ (phase = "ready" =>
            /\ self.cryobasis = args.cryobasis
            /\ self.cryo_coefficients = args.cryo_coefficients
            /\ self.hyper_parameter_array = args.hyper_parameter_array
            /\ self.frequencies = args.frequencies)

C7_Witness ==
    /\ phase = "ready" /\ MaskMismatch(args)
    /\ QueryDone /\ IsArray

\* ------------------------------------------------------------------- C8
\* C8: under the Gaussian-process strategy a query with an unknown kernel
\* or regressor name ends with the error the fit raised, and leaves no
\* model cached, no fit counted and no diagnostic set.
C8_UnknownNameFails ==
    (QueryDone /\ self.use_gpr /\ UnknownName) =>
        /\ result.kind = "error"
        /\ result.at \in {"reshape", "kernel", "regr"}
        /\ (NoDefect => result.exc = "UnboundLocalError")
        /\ _hyper_parameter_interpolater = Unset
        /\ fit_count = 0
        /\ diagnostics = {}

C8_Witness ==
    /\ QueryDone /\ self.use_gpr /\ n_queries = MaxQueries
    /\ self.gpr_kwargs.kernel \notin KnownKernels
    /\ result = Raised("UnboundLocalError", "kernel")
    /\ _cryo_basis_kl_to_beam # NoProjector

\* ------------------------------------------------------------------- C9
\* C9: coefficient_predicter with no model cached raises AttributeError,
\* which no failing fit raises, and fits nothing and changes no attribute;
\* with a model cached it returns that model's prediction.
FitExceptions == {"ValueError", "KeyError", "UnboundLocalError"}

C9_PredictNeedsFit ==
    [][ last_op'.op = "predict" =>
          IF _hyper_parameter_interpolater = Unset
          THEN /\ result' = Raised("AttributeError", "_hyper_parameter_interpolater")
               /\ result'.exc \notin FitExceptions
               /\ _hyper_parameter_interpolater' = Unset
               /\ fit_count' = fit_count
               /\ diagnostics' = diagnostics
               /\ _cryo_basis_kl_to_beam' = _cryo_basis_kl_to_beam
          ELSE /\ result'.kind = "array"
               /\ result'.value =
                     (IF self.use_gpr
                      THEN GprPredict(_hyper_parameter_interpolater, last_op'.h)
                      ELSE SplineCall(_hyper_parameter_interpolater, last_op'.h))
               /\ _hyper_parameter_interpolater' = _hyper_parameter_interpolater ]_vars

C9_Witness ==
    /\ PredictDone /\ result.exc = "AttributeError"
    /\ n_queries >= 1 /\ fit_count = 0

\* ------------------------------------------------------------------ C10
PastCheck == {c \in Callers : pc[c] \notin {"idle", "getter"}}
AllDone == \A c \in Callers : pc[c] = "done"
\* what one caller alone gets for h, with and without a projector in place
AloneResults(h) ==
    {CallOutcome(self, Unset, p, h, 1).result :
        p \in {NoProjector, Projector(self.cryobasis, self.coefficient_order)}}

\* C10 as stated: however the first queries of the callers interleave, at
\* most one fit is done and all callers that computed a result used the
\* same model.
C10_FitsSerialized ==
    /\ fit_count <= 1
    /\ \A c, d \in Callers :
          (pc[c] = "done" /\ pc[d] = "done" /\ local[c].model # Unset
              /\ local[d].model # Unset) => local[c].model.id = local[d].model.id

\* C10 as amended: the fits are not serialized but each caller fits at most
\* once; the cache holds nothing or a fitted model; every caller projects
\* from a fitted model and gets the result it would get alone.
C10_EachCallerFitsOnce ==
    /\ fit_count <= Cardinality(PastCheck)
    /\ (_hyper_parameter_interpolater # Unset => _hyper_parameter_interpolater.fitted)
    /\ \A c \in Callers :
          /\ (pc[c] = "project" => local[c].model # Unset /\ local[c].model.fitted)
          /\ (pc[c] = "done" => local[c].result \in AloneResults(local[c].h))

C10_Witness ==
    /\ AllDone /\ fit_count = NumCallers
    /\ \A c \in Callers : local[c].result.kind = "array"
    /\ local[1].model.id = local[2].model.id

====
